---- MODULE Spec2Model ----
(***************************************************************************)
(* A model of uu_last (src/uu/last): the reconstruction of login sessions,  *)
(* reboots and shutdowns from the utmpx accounting log.                     *)
(*                                                                          *)
(* The accounting log is an append-only file, oldest record first.  A run   *)
(* (uumain) builds a Last value, materialises the log on ut_stack and pops  *)
(* it record by record, printing one line for the records it reports.       *)
(*                                                                          *)
(* Timestamps are whole seconds since the UNIX epoch plus microseconds      *)
(* (struct timeval of utmpx); clock and calendar strings are rendered for   *)
(* a zero local offset.                                                     *)
(***************************************************************************)
EXTENDS Integers, Sequences, FiniteSets, TLC

VARIABLES
    log,               \* the records of the accounting file, oldest first
    pc,                \* "idle", "exec", "loop", "done": position of the run
    system,            \* Last.system
    last_reboot_ut,    \* Last.last_reboot_ut  : Option<Utmpx>
    last_shutdown_ut,  \* Last.last_shutdown_ut: Option<Utmpx>
    last_dead_ut,      \* Last.last_dead_ut    : Vec<Utmpx>
    ut_stack,          \* exec's local ut_stack: Vec<Utmpx>
    readable,          \* whether the record source could be opened and read
    out,               \* the lines written to standard output by this run
    origin,            \* history: for each line of out, the log position of
                       \* its record and of the dead record matched (0: none)
    exit,              \* "none" while running, then "ok" or "err"
    history,           \* the finished runs of this process image, in order
    dur_in,            \* argument pair of the time delta engine
    dur_out            \* its rendered result

vars == <<log, pc, system, last_reboot_ut, last_shutdown_ut, last_dead_ut,
          ut_stack, readable, out, origin, exit, history, dur_in, dur_out>>

-----------------------------------------------------------------------------
(* Bounds of the model *)

MaxLen == 3
MaxRuns == 2
MaxLenPending == 5

(* Seconds between one log record and the next: none, or half a day and    *)
(* half an hour                                                            *)
Gaps == {0, 45000}

(* The same at the granularity of ten seconds *)
GapsSeconds == {0, 10}

(* A log without records of the same instant *)
GapsApart == {45000}

-----------------------------------------------------------------------------
(* Option<T> *)

None == <<>>
Some(x) == <<x>>
is_none(o) == o = <<>>
is_some(o) == o # <<>>
unwrap(o) == o[1]

-----------------------------------------------------------------------------
(* Program constants *)

RUN_LEVEL_STR == "runlevel"
REBOOT_STR == "reboot"
SHUTDOWN_STR == "shutdown"

(* Last.time_format: fixed by uumain *)
time_format == "short"

(* Last.users: never populated by uumain *)
users == None

-----------------------------------------------------------------------------
(* Decimal and character rendering *)

Digits == <<"0", "1", "2", "3", "4", "5", "6", "7", "8", "9">>

RECURSIVE NatStr(_)
NatStr(n) ==
    IF n < 10 THEN Digits[n + 1]
    ELSE NatStr(n \div 10) \o Digits[(n % 10) + 1]

(* Display of a signed integer *)
IntStr(n) == IF n < 0 THEN "-" \o NatStr(-n) ELSE NatStr(n)

(* "{:0>2}": right-aligned in width 2, filled with '0' *)
Pad2(n) ==
    LET s == IntStr(n) IN IF Len(s) < 2 THEN "0" \o s ELSE s

(* "[day padding:space]" *)
PadSpace2(n) ==
    LET s == IntStr(n) IN IF Len(s) < 2 THEN " " \o s ELSE s

(* Integer division of Rust: truncation toward zero *)
TruncDiv(a, b) == IF a >= 0 THEN a \div b ELSE -((-a) \div b)

(* The characters with codes 32..95 and 97..126 *)
PrintableLow ==
    " !\"#$%&'()*+,-./0123456789:;<=>?@ABCDEFGHIJKLMNOPQRSTUVWXYZ[\\]^_"
PrintableHigh == "abcdefghijklmnopqrstuvwxyz{|}~"

HexDigits == <<"0", "1", "2", "3", "4", "5", "6", "7",
               "8", "9", "a", "b", "c", "d", "e", "f">>

(* c as u8 as char: the character with code c in 0..255.  The grave accent *)
(* and the characters outside printable ASCII are written \xhh.            *)
Chr(c) ==
    IF c >= 32 /\ c <= 95 THEN SubSeq(PrintableLow, c - 31, c - 31)
    ELSE IF c >= 97 /\ c <= 126 THEN SubSeq(PrintableHigh, c - 96, c - 96)
    ELSE "\\x" \o HexDigits[(c \div 16) + 1] \o HexDigits[(c % 16) + 1]

-----------------------------------------------------------------------------
(* Utmpx accessors *)

user(ut) == ut.ut_user
tty_device(ut) == ut.ut_line
host(ut) == ut.ut_host
pid(ut) == ut.ut_pid

(* OffsetDateTime of the record: seconds and nanoseconds *)
login_time(ut) == [sec |-> ut.tv_sec, nsec |-> ut.tv_usec * 1000]

is_user_process(ut) == user(ut) # "" /\ ut.ut_type = "USER_PROCESS"

(* OffsetDateTime::from_unix_timestamp(0) *)
UnixEpoch == [sec |-> 0, nsec |-> 0]

(* Variant: a > b *)
DateTimeGT(a, b) == a.sec > b.sec \/ (a.sec = b.sec /\ a.nsec > b.nsec)

(* a >= b on OffsetDateTime *)
DateTimeGE(a, b) == a.sec > b.sec \/ (a.sec = b.sec /\ a.nsec >= b.nsec)

-----------------------------------------------------------------------------
(* Time delta engine *)

NanosPerSec == 1000000000

(* time::Duration::new: seconds and nanoseconds brought to the same sign *)
DurationNew(seconds, nanoseconds) ==
    LET s == seconds + TruncDiv(nanoseconds, NanosPerSec)
        n == nanoseconds - TruncDiv(nanoseconds, NanosPerSec) * NanosPerSec
    IN  IF s > 0 /\ n < 0 THEN [seconds |-> s - 1, nanoseconds |-> n + NanosPerSec]
        ELSE IF s < 0 /\ n > 0 THEN [seconds |-> s + 1, nanoseconds |-> n - NanosPerSec]
        ELSE [seconds |-> s, nanoseconds |-> n]

(* time::Duration - time::Duration *)
DurationSub(a, b) ==
    LET s == a.seconds - b.seconds
        n == a.nanoseconds - b.nanoseconds
    IN  IF n >= NanosPerSec \/ (s < 0 /\ n > 0)
        THEN [seconds |-> s + 1, nanoseconds |-> n - NanosPerSec]
        ELSE IF n <= -NanosPerSec \/ (s > 0 /\ n < 0)
        THEN [seconds |-> s - 1, nanoseconds |-> n + NanosPerSec]
        ELSE [seconds |-> s, nanoseconds |-> n]

whole_seconds(duration) == duration.seconds

calculate_time_delta(curr_datetime, last_datetime) ==
    LET curr_duration == DurationNew(curr_datetime.sec, curr_datetime.nsec)
        last_duration == DurationNew(last_datetime.sec, last_datetime.nsec)
    IN  DurationSub(last_duration, curr_duration)

(* Variant: the days are not taken off before the hours are counted *)
duration_string_keep_days(duration) ==
    LET seconds0 == whole_seconds(duration)
        days == TruncDiv(seconds0, 86400)
        hours == TruncDiv(seconds0, 3600)
        seconds2 == seconds0 - (hours * 3600)
        minutes == TruncDiv(seconds2, 60)
    IN  IF days > 0
        THEN "(" \o IntStr(days) \o "+" \o Pad2(hours) \o ":" \o Pad2(minutes) \o ")"
        ELSE "(" \o Pad2(hours) \o ":" \o Pad2(minutes) \o ")"

duration_string(duration) ==
    LET seconds0 == whole_seconds(duration)
        days == TruncDiv(seconds0, 86400)
        seconds1 == seconds0 - (days * 86400)
        hours == TruncDiv(seconds1, 3600)
        seconds2 == seconds1 - (hours * 3600)
        minutes == TruncDiv(seconds2, 60)
    IN  IF days > 0
        THEN "(" \o IntStr(days) \o "+" \o Pad2(hours) \o ":" \o Pad2(minutes) \o ")"
        ELSE "(" \o Pad2(hours) \o ":" \o Pad2(minutes) \o ")"

-----------------------------------------------------------------------------
(* Calendar and clock rendering of an OffsetDateTime (zero offset) *)

MonthNames == <<"Jan", "Feb", "Mar", "Apr", "May", "Jun",
                "Jul", "Aug", "Sep", "Oct", "Nov", "Dec">>

IsLeap(y) == (y % 4 = 0 /\ y % 100 # 0) \/ y % 400 = 0

MonthLen(y, m) ==
    IF m = 2 THEN (IF IsLeap(y) THEN 29 ELSE 28)
    ELSE IF m \in {4, 6, 9, 11} THEN 30 ELSE 31

YearLen(y) == IF IsLeap(y) THEN 366 ELSE 365

(* The date of day d (0-based) counted from 1 January of year y *)
RECURSIVE DateFrom(_, _, _)
DateFrom(d, y, m) ==
    IF m = 1 /\ d >= YearLen(y) THEN DateFrom(d - YearLen(y), y + 1, 1)
    ELSE IF d >= MonthLen(y, m) THEN DateFrom(d - MonthLen(y, m), y, m + 1)
    ELSE [month |-> m, day |-> d + 1]

(* "[hour]:[minute]" *)
ClockString(dt) ==
    Pad2((dt.sec % 86400) \div 3600) \o ":" \o Pad2((dt.sec % 3600) \div 60)

(* "[month repr:short] [day padding:space] [hour]:[minute]" *)
ShortString(dt) ==
    LET date == DateFrom(dt.sec \div 86400, 1970, 1)
    IN  MonthNames[date.month] \o " " \o PadSpace2(date.day) \o " "
            \o ClockString(dt)

time_string(ut) ==
    IF time_format = "short" THEN ShortString(login_time(ut)) ELSE ""

end_time_string(user_process_str, end_ut) ==
    IF is_some(user_process_str) THEN unwrap(user_process_str)
    ELSE IF time_format = "short" THEN ClockString(end_ut) ELSE ""

-----------------------------------------------------------------------------
(* Line formatter *)

RECURSIVE Spaces(_)
Spaces(n) == IF n <= 0 THEN "" ELSE " " \o Spaces(n - 1)

(* "{s:<w}" *)
PadLeftAligned(s, w) == s \o Spaces(w - Len(s))

(* "{s:^w}" *)
PadCentered(s, w) ==
    LET fill == IF Len(s) >= w THEN 0 ELSE w - Len(s)
    IN  Spaces(fill \div 2) \o s \o Spaces(fill - (fill \div 2))

RECURSIVE trim_end(_)
trim_end(s) ==
    IF Len(s) > 0 /\ SubSeq(s, Len(s), Len(s)) = " "
    THEN trim_end(SubSeq(s, 1, Len(s) - 1))
    ELSE s

(* The text print_line writes to standard output *)
print_line(user_col, line_col, time_col, host_col, end_time, delta) ==
    LET host_to_print == IF Len(host_col) >= 16 THEN SubSeq(host_col, 1, 16)
                         ELSE host_col
        time_size == 3 + 2 + 2 + 1 + 2
    IN  trim_end(PadLeftAligned(user_col, 8)
                 \o " " \o PadLeftAligned(line_col, 12)
                 \o " " \o PadLeftAligned(host_to_print, 16)
                 \o " " \o PadLeftAligned(time_col, time_size)
                 \o " - " \o PadLeftAligned(end_time, 8)
                 \o " " \o PadCentered(delta, 6))

-----------------------------------------------------------------------------
(* End-state resolution *)

(* The dead record is known: the session ended at its login_time *)
resolve_dead(ut, dead) ==
    LET curr_datetime == login_time(ut)
        dead_datetime == login_time(dead)
        time_delta == duration_string(
                          calculate_time_delta(curr_datetime, dead_datetime))
    IN  <<end_time_string(None, dead_datetime), time_delta>>

(* Variant: the markers of the two kinds exchanged *)
resolve_open_swapped(ut) ==
    IF is_user_process(ut)
    THEN <<" - still running", "">>
    ELSE <<" - still logged in", "">>

(* Neither a reboot nor a shutdown is known *)
resolve_open(ut) ==
    IF is_user_process(ut)
    THEN <<" - still logged in", "">>
    ELSE <<" - still running", "">>

(* Variant: the duration of the shutdown branch runs to the reboot *)
resolve_down_reboot_delta(ut, reboot_datetime, shutdown_datetime) ==
    LET curr_datetime == login_time(ut)
        reboot == IF is_some(reboot_datetime)
                  THEN unwrap(reboot_datetime) ELSE UnixEpoch
        shutdown == IF is_some(shutdown_datetime)
                    THEN unwrap(shutdown_datetime) ELSE UnixEpoch
        time_delta == duration_string(calculate_time_delta(curr_datetime, reboot))
    IN  IF DateTimeGE(reboot, shutdown)
        THEN <<end_time_string(IF is_user_process(ut) THEN Some("down") ELSE None,
                               shutdown), time_delta>>
        ELSE <<end_time_string(IF is_user_process(ut) THEN Some("crash") ELSE None,
                               reboot), time_delta>>

(* A reboot or a shutdown is known: the instant that is not known is the   *)
(* UNIX epoch                                                              *)
resolve_down(ut, reboot_datetime, shutdown_datetime) ==
    LET curr_datetime == login_time(ut)
        reboot == IF is_some(reboot_datetime)
                  THEN unwrap(reboot_datetime) ELSE UnixEpoch
        shutdown == IF is_some(shutdown_datetime)
                    THEN unwrap(shutdown_datetime) ELSE UnixEpoch
    IN  IF DateTimeGE(reboot, shutdown)
        THEN LET time_delta == duration_string(
                                   calculate_time_delta(curr_datetime, shutdown))
                 proc_status == IF is_user_process(ut) THEN Some("down") ELSE None
             IN  <<end_time_string(proc_status, shutdown), time_delta>>
        ELSE LET time_delta == duration_string(
                                   calculate_time_delta(curr_datetime, reboot))
                 proc_status == IF is_user_process(ut) THEN Some("crash") ELSE None
             IN  <<end_time_string(proc_status, reboot), time_delta>>

(* Variant: a known reboot or shutdown is consulted before the dead record *)
end_state_string_down_first(ut, dead_ut) ==
    IF is_some(last_reboot_ut) \/ is_some(last_shutdown_ut)
    THEN resolve_down(ut,
                      IF is_some(last_reboot_ut)
                      THEN Some(login_time(unwrap(last_reboot_ut))) ELSE None,
                      IF is_some(last_shutdown_ut)
                      THEN Some(login_time(unwrap(last_shutdown_ut))) ELSE None)
    ELSE IF is_some(dead_ut) THEN resolve_dead(ut, unwrap(dead_ut))
    ELSE resolve_open(ut)

(* <<end marker, duration>> of record ut, given the matched dead record *)
end_state_string(ut, dead_ut) ==
    IF is_some(dead_ut) THEN resolve_dead(ut, unwrap(dead_ut))
    ELSE
    LET reboot_datetime == IF is_some(last_reboot_ut)
                           THEN Some(login_time(unwrap(last_reboot_ut)))
                           ELSE None
        shutdown_datetime == IF is_some(last_shutdown_ut)
                             THEN Some(login_time(unwrap(last_shutdown_ut)))
                             ELSE None
    IN  IF is_none(reboot_datetime) /\ is_none(shutdown_datetime)
        THEN resolve_open(ut)
        ELSE resolve_down(ut, reboot_datetime, shutdown_datetime)

-----------------------------------------------------------------------------
(* The print_* methods.  Each yields the columns handed to print_line, as   *)
(* a sequence of at most one element: empty when the method prints nothing. *)

Columns(user_col, line_col, time_col, host_col, end_state) ==
    [user |-> user_col, line |-> line_col, time |-> time_col,
     host |-> host_col, end_time |-> end_state[1], delta |-> end_state[2]]

(* Variant: the level is read from the second byte of pid *)
runlevel_char_high(ut) == Chr((pid(ut) \div 256) % 256)

(* The level character of a run-level record *)
runlevel_char(ut) == Chr(pid(ut) % 256)

print_runlevel(ut) ==
    IF system
    THEN LET curr == runlevel_char(ut)
             runlvline == "(to lvl " \o curr \o ")"
         IN  <<Columns(RUN_LEVEL_STR, runlvline, time_string(ut), host(ut),
                       end_state_string(ut, None))>>
    ELSE <<>>

(* Variant: the shutdown line is printed whatever system is *)
print_shutdown_ungated(ut) ==
    <<Columns(SHUTDOWN_STR, "system down", time_string(ut), host(ut),
              end_state_string(ut, None))>>

print_shutdown(ut) ==
    IF is_some(users)
       /\ ~(\E i \in DOMAIN unwrap(users) :
                unwrap(users)[i] = "system down" \/ unwrap(users)[i] = user(ut))
    THEN <<>>
    ELSE IF system
    THEN <<Columns(SHUTDOWN_STR, "system down", time_string(ut), host(ut),
                   end_state_string(ut, None))>>
    ELSE <<>>

print_reboot(ut) ==
    <<Columns(REBOOT_STR, "system boot", time_string(ut), host(ut),
              end_state_string(ut, None))>>

print_user(ut, dead_ut) ==
    <<Columns(user(ut), tty_device(ut), time_string(ut), host(ut),
              end_state_string(ut, dead_ut))>>

(* The standard output text of the columns *)
Render(c) == print_line(c.user, c.line, c.time, c.host, c.end_time, c.delta)

-----------------------------------------------------------------------------
(* The accounting log *)

Devices == {"tty1", "tty2"}

(* The record shapes the log is drawn from *)
Templates ==
    {[ut_type |-> "USER_PROCESS", ut_user |-> "alice", ut_line |-> d,
      ut_host |-> "10.0.0.7", ut_pid |-> 4101] : d \in Devices}
    \cup
    {[ut_type |-> "DEAD_PROCESS", ut_user |-> "", ut_line |-> d,
      ut_host |-> "", ut_pid |-> 4101] : d \in Devices}
    \cup
    {[ut_type |-> "RUN_LVL", ut_user |-> "runlevel", ut_line |-> "~",
      ut_host |-> "6.18.44-fc-v235-generic", ut_pid |-> p] : p \in {259, 20019}}
    \cup
    {[ut_type |-> "RUN_LVL", ut_user |-> "shutdown", ut_line |-> "~",
      ut_host |-> "6.18.44-fc-v235-generic", ut_pid |-> 0],
     [ut_type |-> "BOOT_TIME", ut_user |-> "reboot", ut_line |-> "~",
      ut_host |-> "6.18.44-fc-v235-generic", ut_pid |-> 0],
     [ut_type |-> "LOGIN_PROCESS", ut_user |-> "LOGIN", ut_line |-> "tty1",
      ut_host |-> "", ut_pid |-> 812]}

(* The shapes of a system with a single terminal: one of each kind *)
OneTerminal ==
    {t \in Templates : t.ut_line \in {"tty1", "~"} /\ t.ut_pid # 20019}

(* The shapes of a system with both terminals and one run level *)
TwoTerminals == {t \in Templates : t.ut_pid # 20019}

(* A record of shape t stamped at second sec; pos is its place in the log *)
Stamp(t, sec, pos) ==
    [ut_type |-> t.ut_type, ut_user |-> t.ut_user, ut_line |-> t.ut_line,
     ut_host |-> t.ut_host, ut_pid |-> t.ut_pid,
     tv_sec |-> sec, tv_usec |-> 0, pos |-> pos]

LastStamp == IF log = <<>> THEN 0 ELSE log[Len(log)].tv_sec

-----------------------------------------------------------------------------
(* Vec helpers *)

(* iter().position(|dead_ut| dev == dead_ut.tty_device()): 0 when absent *)
position(v, dev) ==
    IF \E i \in DOMAIN v : tty_device(v[i]) = dev
    THEN CHOOSE i \in DOMAIN v :
             /\ tty_device(v[i]) = dev
             /\ \A j \in 1..(i - 1) : tty_device(v[j]) # dev
    ELSE 0

(* Variant: the last element is dropped, whichever index is asked for *)
swap_remove_last(v, i) == SubSeq(v, 1, Len(v) - 1)

(* Vec::swap_remove: the last element takes the place of the removed one *)
swap_remove(v, i) ==
    IF i = Len(v) THEN SubSeq(v, 1, Len(v) - 1)
    ELSE [k \in 1..(Len(v) - 1) |-> IF k = i THEN v[Len(v)] ELSE v[k]]

-----------------------------------------------------------------------------
(* The state machine *)

Init ==
    /\ log = <<>>
    /\ pc = "idle"
    /\ system = FALSE
    /\ last_reboot_ut = None
    /\ last_shutdown_ut = None
    /\ last_dead_ut = <<>>
    /\ ut_stack = <<>>
    /\ readable = TRUE
    /\ out = <<>>
    /\ origin = <<>>
    /\ exit = "none"
    /\ history = <<>>
    /\ dur_in = <<UnixEpoch, UnixEpoch>>
    /\ dur_out = ""

(* The system appends a record of a shape in T, g seconds after the last   *)
(* one for a g in G, to the accounting file before the run                 *)
Write(T, G) ==
    /\ pc = "idle"
    /\ Len(log) < MaxLen
    /\ \E t \in T, g \in G :
           log' = Append(log, Stamp(t, LastStamp + g, Len(log) + 1))
    /\ UNCHANGED <<pc, system, last_reboot_ut, last_shutdown_ut, last_dead_ut,
                   ut_stack, readable, out, origin, exit, history, dur_in, dur_out>>

(* Variant: the fields of the previous Last value are kept *)
ConstructStale(flag) ==
    /\ system' = flag
    /\ ut_stack' = <<>>
    /\ out' = <<>>
    /\ origin' = <<>>
    /\ exit' = "none"
    /\ pc' = "exec"
    /\ UNCHANGED <<log, readable, history, dur_in, dur_out,
                   last_reboot_ut, last_shutdown_ut, last_dead_ut>>

(* uumain up to the call of exec: the arguments parse and Last is built *)
Construct(flag) ==
    /\ system' = flag
    /\ last_reboot_ut' = None
    /\ last_shutdown_ut' = None
    /\ last_dead_ut' = <<>>
    /\ ut_stack' = <<>>
    /\ out' = <<>>
    /\ origin' = <<>>
    /\ exit' = "none"
    /\ pc' = "exec"
    /\ UNCHANGED <<log, readable, history, dur_in, dur_out>>

uumain ==
    /\ pc = "idle"
    /\ \E flag \in BOOLEAN : Construct(flag)

(* uumain when try_get_matches_from rejects the arguments *)
uumain_usage ==
    /\ pc = "idle"
    /\ pc' = "done"
    /\ exit' = "err"
    /\ history' = Append(history, [system |-> system, readable |-> readable,
                                   exit |-> "err", out |-> out])
    /\ UNCHANGED <<log, system, last_reboot_ut, last_shutdown_ut, last_dead_ut,
                   ut_stack, readable, out, origin, dur_in, dur_out>>

RECURSIVE Reverse(_)
Reverse(v) == IF v = <<>> THEN <<>> ELSE Append(Reverse(Tail(v)), Head(v))

(* Variant: the stack holds the log newest record first *)
MaterializeReversed(ok) == IF ok THEN Reverse(log) ELSE <<>>

(* The records iter_all_records_from yields, pushed on ut_stack in order:   *)
(* a source that cannot be opened yields none                               *)
Materialize(ok) == IF ok THEN log ELSE <<>>

(* exec up to the loop: the record source is materialised *)
exec_read ==
    /\ pc = "exec"
    /\ \E ok \in BOOLEAN :
           /\ readable' = ok
           /\ ut_stack' = Materialize(ok)
    /\ pc' = "loop"
    /\ UNCHANGED <<log, system, last_reboot_ut, last_shutdown_ut, last_dead_ut,
                   out, origin, exit, history, dur_in, dur_out>>

(* ut_stack.pop() *)
Top == ut_stack[Len(ut_stack)]

(* Variant: a step takes two records off the stack *)
PoppedTwo == SubSeq(ut_stack, 1, Len(ut_stack) - 2)

Popped == SubSeq(ut_stack, 1, Len(ut_stack) - 1)

(* The lines a print_* call adds to standard output, and their history *)
Emit(cols, ut, dead_pos) ==
    /\ out' = out \o [i \in DOMAIN cols |-> Render(cols[i])]
    /\ origin' = origin \o [i \in DOMAIN cols |->
                               [rec |-> ut.pos, dead |-> dead_pos, cols |-> cols[i]]]

exec_user ==
    /\ pc = "loop" /\ ut_stack # <<>>
    /\ is_user_process(Top)
    /\ LET ut == Top
           pos == position(last_dead_ut, tty_device(ut))
           dead_proc == IF pos # 0 THEN Some(last_dead_ut[pos]) ELSE None
       IN  /\ last_dead_ut' = IF pos # 0 THEN swap_remove(last_dead_ut, pos)
                                         ELSE last_dead_ut
           /\ Emit(print_user(ut, dead_proc), ut,
                   IF pos # 0 THEN last_dead_ut[pos].pos ELSE 0)
    /\ ut_stack' = Popped
    /\ UNCHANGED <<log, pc, system, last_reboot_ut, last_shutdown_ut, readable,
                   exit, history, dur_in, dur_out>>

exec_runlevel ==
    /\ pc = "loop" /\ ut_stack # <<>>
    /\ ~is_user_process(Top) /\ user(Top) = RUN_LEVEL_STR
    /\ Emit(print_runlevel(Top), Top, 0)
    /\ ut_stack' = Popped
    /\ UNCHANGED <<log, pc, system, last_reboot_ut, last_shutdown_ut, last_dead_ut,
                   readable, exit, history, dur_in, dur_out>>

(* Variant: a shutdown that is not shown is not stored either *)
exec_shutdown_gated ==
    /\ pc = "loop" /\ ut_stack # <<>>
    /\ ~is_user_process(Top) /\ user(Top) = SHUTDOWN_STR
    /\ Emit(print_shutdown(Top), Top, 0)
    /\ last_shutdown_ut' = IF system THEN Some(Top) ELSE last_shutdown_ut
    /\ ut_stack' = Popped
    /\ UNCHANGED <<log, pc, system, last_reboot_ut, last_dead_ut,
                   readable, exit, history, dur_in, dur_out>>

(* Variant: the shutdown is stored before its own line is resolved *)
exec_shutdown_store_first ==
    /\ pc = "loop" /\ ut_stack # <<>>
    /\ ~is_user_process(Top) /\ user(Top) = SHUTDOWN_STR
    /\ last_shutdown_ut' = Some(Top)
    /\ Emit(IF system
            THEN <<Columns(SHUTDOWN_STR, "system down", time_string(Top), host(Top),
                           resolve_down(Top,
                                        IF is_some(last_reboot_ut)
                                        THEN Some(login_time(unwrap(last_reboot_ut)))
                                        ELSE None,
                                        Some(login_time(Top))))>>
            ELSE <<>>, Top, 0)
    /\ ut_stack' = Popped
    /\ UNCHANGED <<log, pc, system, last_reboot_ut, last_dead_ut,
                   readable, exit, history, dur_in, dur_out>>

exec_shutdown ==
    /\ pc = "loop" /\ ut_stack # <<>>
    /\ ~is_user_process(Top) /\ user(Top) = SHUTDOWN_STR
    /\ Emit(print_shutdown(Top), Top, 0)
    /\ last_shutdown_ut' = Some(Top)
    /\ ut_stack' = Popped
    /\ UNCHANGED <<log, pc, system, last_reboot_ut, last_dead_ut,
                   readable, exit, history, dur_in, dur_out>>

(* Variant: a reboot already known is kept *)
exec_reboot_keep_first ==
    /\ pc = "loop" /\ ut_stack # <<>>
    /\ ~is_user_process(Top) /\ user(Top) = REBOOT_STR
    /\ Emit(print_reboot(Top), Top, 0)
    /\ last_reboot_ut' = IF is_none(last_reboot_ut) THEN Some(Top) ELSE last_reboot_ut
    /\ ut_stack' = Popped
    /\ UNCHANGED <<log, pc, system, last_shutdown_ut, last_dead_ut,
                   readable, exit, history, dur_in, dur_out>>

exec_reboot ==
    /\ pc = "loop" /\ ut_stack # <<>>
    /\ ~is_user_process(Top) /\ user(Top) = REBOOT_STR
    /\ Emit(print_reboot(Top), Top, 0)
    /\ last_reboot_ut' = Some(Top)
    /\ ut_stack' = Popped
    /\ UNCHANGED <<log, pc, system, last_shutdown_ut, last_dead_ut,
                   readable, exit, history, dur_in, dur_out>>

(* Variant: the dead record replaces the pending ones *)
exec_dead_replace ==
    /\ pc = "loop" /\ ut_stack # <<>>
    /\ ~is_user_process(Top) /\ user(Top) = ""
    /\ last_dead_ut' = <<Top>>
    /\ ut_stack' = Popped
    /\ UNCHANGED <<log, pc, system, last_reboot_ut, last_shutdown_ut,
                   readable, out, origin, exit, history, dur_in, dur_out>>

exec_dead ==
    /\ pc = "loop" /\ ut_stack # <<>>
    /\ ~is_user_process(Top) /\ user(Top) = ""
    /\ last_dead_ut' = Append(last_dead_ut, Top)
    /\ ut_stack' = Popped
    /\ UNCHANGED <<log, pc, system, last_reboot_ut, last_shutdown_ut,
                   readable, out, origin, exit, history, dur_in, dur_out>>

(* A record no branch of the loop takes *)
exec_other ==
    /\ pc = "loop" /\ ut_stack # <<>>
    /\ ~is_user_process(Top)
    /\ user(Top) \notin {RUN_LEVEL_STR, SHUTDOWN_STR, REBOOT_STR, ""}
    /\ ut_stack' = Popped
    /\ UNCHANGED <<log, pc, system, last_reboot_ut, last_shutdown_ut, last_dead_ut,
                   readable, out, origin, exit, history, dur_in, dur_out>>

(* The stack is empty: exec returns Ok(()) *)
exec_return ==
    /\ pc = "loop" /\ ut_stack = <<>>
    /\ pc' = "done"
    /\ exit' = "ok"
    /\ history' = Append(history, [system |-> system, readable |-> readable,
                                   exit |-> "ok", out |-> out])
    /\ UNCHANGED <<log, system, last_reboot_ut, last_shutdown_ut, last_dead_ut,
                   ut_stack, readable, out, origin, dur_in, dur_out>>

(* The steps of a run *)
Run ==
    \/ uumain
    \/ uumain_usage
    \/ exec_read
    \/ exec_user
    \/ exec_runlevel
    \/ exec_shutdown
    \/ exec_reboot
    \/ exec_dead
    \/ exec_other
    \/ exec_return

WriteRecord == Write(Templates, Gaps)

Next == WriteRecord \/ Run

Spec == Init /\ [][Next]_vars

-----------------------------------------------------------------------------
(* The log of one terminal at the granularity of ten seconds *)

WriteSeconds == Write(OneTerminal, GapsSeconds)

NextSeconds == WriteSeconds \/ Run

SpecSeconds == Init /\ [][NextSeconds]_vars

-----------------------------------------------------------------------------
(* Repeated runs: the program is started again on the same accounting file *)

uumain_again ==
    /\ pc = "done"
    /\ Len(history) < MaxRuns
    /\ \E flag \in BOOLEAN : Construct(flag)

WriteRerun == Write(OneTerminal, GapsApart)

NextRerun == WriteRerun \/ Run \/ uumain_again

SpecRerun == Init /\ [][NextRerun]_vars

-----------------------------------------------------------------------------
(* A longer log, for the order in which last_dead_ut is consumed *)

WritePending ==
    /\ pc = "idle"
    /\ Len(log) < MaxLenPending
    /\ \E t \in OneTerminal, g \in GapsApart :
           log' = Append(log, Stamp(t, LastStamp + g, Len(log) + 1))
    /\ UNCHANGED <<pc, system, last_reboot_ut, last_shutdown_ut, last_dead_ut,
                   ut_stack, readable, out, origin, exit, history, dur_in, dur_out>>

NextPending == WritePending \/ Run

SpecPending == Init /\ [][NextPending]_vars

-----------------------------------------------------------------------------
(* The pass as a sequential program: once exec has its stack, the head of   *)
(* its loop keeps being run, popping a record or, on an empty stack,        *)
(* leaving the loop for the return                                          *)

while_let_pop ==
    /\ pc = "loop"
    /\ IF ut_stack = <<>> THEN pc' = "done" /\ ut_stack' = ut_stack
                          ELSE pc' = pc /\ ut_stack' = Popped

WritePass == Write(OneTerminal, GapsApart)

NextPass == WritePass \/ Run

SpecPass == Init /\ [][NextPass]_vars /\ WF_<<pc, ut_stack>>(while_let_pop)

-----------------------------------------------------------------------------
(* The log of both terminals, its records half a day apart *)

WriteTerminals == Write(TwoTerminals, GapsApart)

NextTerminals == WriteTerminals \/ Run

SpecTerminals == Init /\ [][NextTerminals]_vars

-----------------------------------------------------------------------------
(* The time delta engine on its own: two instants in, a duration string out *)

DeltaSeconds == {0, 59, 60, 3599, 3600, 3661, 86399, 86400, 90000, 867661}
DeltaNanos == {0, 500000000}
DeltaInstants == {[sec |-> s, nsec |-> n] : s \in DeltaSeconds, n \in DeltaNanos}

InitDelta ==
    /\ Init!1 /\ Init!2 /\ Init!3 /\ Init!4 /\ Init!5 /\ Init!6 /\ Init!7
    /\ Init!8 /\ Init!9 /\ Init!10 /\ Init!11 /\ Init!12
    /\ dur_in \in DeltaInstants \X DeltaInstants
    /\ dur_out = ""

(* duration_string(calculate_time_delta(&curr_datetime, &last_datetime)) *)
delta_render ==
    /\ dur_out = ""
    /\ dur_out' = duration_string(calculate_time_delta(dur_in[1], dur_in[2]))
    /\ UNCHANGED <<log, pc, system, last_reboot_ut, last_shutdown_ut, last_dead_ut,
                   ut_stack, readable, out, origin, exit, history, dur_in>>

SpecDelta == InitDelta /\ [][delta_render]_vars

-----------------------------------------------------------------------------
(* Vocabulary of the properties *)

(* The classification of a record, as the branches of exec's loop take it *)
Kind(ut) ==
    IF is_user_process(ut) THEN "user-session"
    ELSE IF user(ut) = RUN_LEVEL_STR THEN "run-level-change"
    ELSE IF user(ut) = SHUTDOWN_STR THEN "shutdown"
    ELSE IF user(ut) = REBOOT_STR THEN "reboot"
    ELSE IF user(ut) = "" THEN "dead-process"
    ELSE "other"

(* Whole seconds from record a to record b *)
SecondsBetween(a, b) == b.tv_sec - a.tv_sec

(* The duration column of s whole seconds, s >= 0, as section 4.2 words it *)
DurationText(s) ==
    LET days == s \div 86400
        hours == (s % 86400) \div 3600
        minutes == (s % 3600) \div 60
    IN  IF days > 0
        THEN "(" \o IntStr(days) \o "+" \o Pad2(hours) \o ":" \o Pad2(minutes) \o ")"
        ELSE "(" \o Pad2(hours) \o ":" \o Pad2(minutes) \o ")"

(* The lines of the run printed for the record at log position p *)
LinesOf(p) == {k \in DOMAIN origin : origin[k].rec = p}

(* The loop is about to take the record on top of the stack *)
AtRecord == pc = "loop" /\ ut_stack # <<>>

(* The step printed a line *)
Printed == Len(origin') = Len(origin) + 1
NewLine == origin'[Len(origin')]

SetMin(S) == CHOOSE x \in S : \A y \in S : x <= y

(* The dead-process records of device dev after log position p *)
DeadAfter(p, dev) ==
    {q \in (p + 1)..Len(log) :
        Kind(log[q]) = "dead-process" /\ tty_device(log[q]) = dev}

(* No user-session of device dev lies strictly between positions p and q *)
NoLoginBetween(p, q, dev) ==
    \A m \in (p + 1)..(q - 1) :
        ~(Kind(log[m]) = "user-session" /\ tty_device(log[m]) = dev)

-----------------------------------------------------------------------------
(* C1: a user-session record u is matched with the nearest dead-process     *)
(* record d of its device that follows it in the log, the line shows the    *)
(* duration d.login_time - u.login_time, and no other dead-process record   *)
(* is matched to u; stated for the records u whose nearest following dead   *)
(* record comes before the next login on the device.                        *)
C1_NearestDeadMatched ==
    \A k \in DOMAIN origin :
        LET u == log[origin[k].rec]
            following == DeadAfter(u.pos, tty_device(u))
        IN  (/\ Kind(u) = "user-session"
             /\ following # {}
             /\ NoLoginBetween(u.pos, SetMin(following), tty_device(u)))
            => /\ origin[k].dead = SetMin(following)
               /\ origin[k].cols.delta =
                      DurationText(SecondsBetween(u, log[SetMin(following)]))

-----------------------------------------------------------------------------
(* The state in which the record on top of the stack is resolved against a  *)
(* reboot and a shutdown of the same instant, with no dead record matched   *)
TieAtRecord ==
    /\ AtRecord
    /\ is_some(last_reboot_ut) /\ is_some(last_shutdown_ut)
    /\ login_time(unwrap(last_reboot_ut)) = login_time(unwrap(last_shutdown_ut))
    /\ is_user_process(Top) => position(last_dead_ut, tty_device(Top)) = 0

(* C2 as claimed: resolved while last_reboot.login_time equals              *)
(* last_shutdown.login_time, a user-session line gets the end marker        *)
(* "crash", never "down".                                                   *)
C2_TieSelectsReboot ==
    [][(TieAtRecord /\ Printed /\ is_user_process(Top))
       => (NewLine.cols.end_time = "crash" /\ NewLine.cols.end_time # "down")]_vars

(* C2 as amended: resolved while last_reboot.login_time equals              *)
(* last_shutdown.login_time, the shutdown is selected: a user-session line  *)
(* gets the end marker "down", never "crash", any other line the clock time *)
(* of the shutdown, and the duration runs to the shutdown time.             *)
C2_TieSelectsShutdown ==
    [][(TieAtRecord /\ Printed)
       => /\ NewLine.rec = Top.pos
          /\ NewLine.cols.end_time =
                 (IF Kind(Top) = "user-session" THEN "down"
                  ELSE ClockString(login_time(unwrap(last_shutdown_ut))))
          /\ NewLine.cols.end_time # "crash"
          /\ NewLine.cols.delta =
                 DurationText(SecondsBetween(Top, unwrap(last_shutdown_ut)))]_vars

(* A user-session line was just printed against a reboot and a shutdown of  *)
(* the same instant                                                         *)
C2_Witness ==
    /\ pc = "loop" /\ origin # <<>>
    /\ origin[Len(origin)].rec = Len(ut_stack) + 1
    /\ Kind(log[Len(ut_stack) + 1]) = "user-session"
    /\ origin[Len(origin)].dead = 0
    /\ is_some(last_reboot_ut) /\ is_some(last_shutdown_ut)
    /\ login_time(unwrap(last_reboot_ut)) = login_time(unwrap(last_shutdown_ut))
    /\ origin[Len(origin)].cols.end_time = "down"

-----------------------------------------------------------------------------
(* The log of C3: session A on tty1 at 0, reboot at 10, session B on tty1   *)
(* at 20                                                                    *)
C3_Log ==
    /\ Len(log) = 3
    /\ Kind(log[1]) = "user-session" /\ tty_device(log[1]) = "tty1"
    /\ log[1].tv_sec = 0
    /\ Kind(log[2]) = "reboot" /\ log[2].tv_sec = 10
    /\ Kind(log[3]) = "user-session" /\ tty_device(log[3]) = "tty1"
    /\ log[3].tv_sec = 20

(* C3: the run on that log prints B as " - still logged in", the reboot as  *)
(* "system boot" with " - still running", then A with the end marker        *)
(* "crash" and the duration of 10 - 0 seconds.                              *)
C3_EndToEnd ==
    (C3_Log /\ pc = "done" /\ exit = "ok" /\ readable)
    => /\ Len(origin) = 3
       /\ origin[1].rec = 3
       /\ origin[1].cols.end_time = " - still logged in"
       /\ origin[2].rec = 2
       /\ origin[2].cols.line = "system boot"
       /\ origin[2].cols.end_time = " - still running"
       /\ origin[3].rec = 1
       /\ origin[3].cols.end_time = "crash"
       /\ origin[3].cols.delta = DurationText(10 - 0)

-----------------------------------------------------------------------------
(* C4: the records of the printed lines form a subsequence of the reversed  *)
(* log: line after line the log position decreases, so login_time never     *)
(* increases and records of equal login_time appear in reverse log order;   *)
(* each line of the finished report is the rendering of its record's        *)
(* columns.                                                                 *)
C4_NewestFirst ==
    /\ Len(out) = Len(origin)
    /\ pc = "done" =>
           \A i \in DOMAIN origin :
               /\ out[i] = Render(origin[i].cols)
               /\ origin[i].cols.time = time_string(log[origin[i].rec])
    /\ \A i, j \in DOMAIN origin :
           i < j => /\ origin[i].rec > origin[j].rec
                    /\ log[origin[i].rec].tv_sec >= log[origin[j].rec].tv_sec

(* Three lines printed: a later record, then two records of one instant *)
C4_Witness ==
    /\ pc = "done" /\ Len(origin) = 3
    /\ log[origin[1].rec].tv_sec > log[origin[2].rec].tv_sec
    /\ log[origin[2].rec].tv_sec = log[origin[3].rec].tv_sec
    /\ origin[2].rec > origin[3].rec

-----------------------------------------------------------------------------
(* C5: a record resolved with no dead record matched while neither          *)
(* last_reboot nor last_shutdown is known gets an empty duration and the    *)
(* end marker " - still logged in" if it is a user-session, " - still       *)
(* running" otherwise.                                                      *)
C5_StillOpen ==
    [][(/\ AtRecord
        /\ is_none(last_reboot_ut) /\ is_none(last_shutdown_ut)
        /\ is_user_process(Top) => position(last_dead_ut, tty_device(Top)) = 0
        /\ Printed)
       => /\ NewLine.rec = Top.pos
          /\ NewLine.cols.end_time =
                 (IF Kind(Top) = "user-session" THEN " - still logged in"
                  ELSE " - still running")
          /\ NewLine.cols.delta = ""]_vars

(* An open user-session and an open run-level line, no reboot or shutdown   *)
(* known                                                                    *)
C5_Witness ==
    /\ is_none(last_reboot_ut) /\ is_none(last_shutdown_ut)
    /\ \E i, j \in DOMAIN origin :
           /\ Kind(log[origin[i].rec]) = "user-session"
           /\ origin[i].dead = 0
           /\ origin[i].cols.end_time = " - still logged in"
           /\ origin[i].cols.delta = ""
           /\ Kind(log[origin[j].rec]) = "run-level-change"
           /\ origin[j].cols.end_time = " - still running"
           /\ origin[j].cols.delta = ""

-----------------------------------------------------------------------------
(* C6: in a finished run over the log, a run-level-change record and a      *)
(* shutdown record have a line if and only if system is set; a reboot       *)
(* record and a user-session record have exactly one line either way.       *)
C6_EmissionGating ==
    (pc = "done" /\ exit = "ok" /\ readable)
    => \A p \in DOMAIN log :
           /\ Kind(log[p]) \in {"run-level-change", "shutdown"}
                  => Cardinality(LinesOf(p)) = (IF system THEN 1 ELSE 0)
           /\ Kind(log[p]) \in {"reboot", "user-session"}
                  => Cardinality(LinesOf(p)) = 1

(* A run without system over a run-level, a shutdown and a reboot record:   *)
(* the reboot line alone                                                    *)
C6_Witness ==
    /\ pc = "done" /\ exit = "ok" /\ readable /\ ~system
    /\ {Kind(log[p]) : p \in DOMAIN log} = {"run-level-change", "shutdown", "reboot"}
    /\ Len(origin) = 1
    /\ Kind(log[origin[1].rec]) = "reboot"

-----------------------------------------------------------------------------
(* C7: two finished runs on the same log with the same system flag (and the *)
(* same outcome of opening the source) printed the same lines, and every    *)
(* run starts its pass from last_reboot = none, last_shutdown = none and an *)
(* empty pending_dead.                                                      *)
C7_Deterministic ==
    /\ \A i, j \in DOMAIN history :
           (/\ history[i].system = history[j].system
            /\ history[i].readable = history[j].readable
            /\ history[i].exit = history[j].exit)
           => history[i].out = history[j].out
    /\ pc = "exec" => /\ is_none(last_reboot_ut) /\ is_none(last_shutdown_ut)
                      /\ last_dead_ut = <<>> /\ out = <<>>

(* A second run repeated the first, whose pass left a reboot, a shutdown or *)
(* a dead record behind                                                     *)
C7_Witness ==
    /\ Len(history) = 2
    /\ history[1].system = history[2].system
    /\ history[1].readable /\ history[2].readable
    /\ Len(history[2].out) >= 2
    /\ is_some(last_reboot_ut) /\ last_dead_ut # <<>>

-----------------------------------------------------------------------------
(* Whole seconds from dur_in[1] to dur_in[2], when that is not negative *)
DeltaWhole ==
    dur_in[2].sec - dur_in[1].sec
        - (IF dur_in[2].nsec < dur_in[1].nsec THEN 1 ELSE 0)

(* C8: a delta of s >= 0 whole seconds renders days = s div 86400, hours =  *)
(* (s mod 86400) div 3600 and minutes = (s mod 3600) div 60 as "(D+HH:MM)"  *)
(* when days > 0 and as "(HH:MM)" otherwise; 90000 seconds render as        *)
(* "(1+01:00)" and 3661 seconds as "(01:01)".                               *)
C8_DurationFormat ==
    (dur_out # "" /\ DeltaWhole >= 0)
    => /\ dur_out = DurationText(DeltaWhole)
       /\ DeltaWhole = 90000 => dur_out = "(1+01:00)"
       /\ DeltaWhole = 3661 => dur_out = "(01:01)"
       /\ DeltaWhole = 86399 => dur_out = "(23:59)"
       /\ DeltaWhole = 867661 => dur_out = "(10+01:01)"

(* 90000 seconds rendered *)
C8_Witness ==
    /\ dur_in = <<[sec |-> 0, nsec |-> 0], [sec |-> 90000, nsec |-> 0]>>
    /\ dur_out = "(1+01:00)"

-----------------------------------------------------------------------------
(* C9 as claimed: the line of a run-level-change record with pid = 259      *)
(* reads "(to lvl 3)".                                                      *)
C9_Pid259ShowsDigit3 ==
    \A k \in DOMAIN origin :
        (Kind(log[origin[k].rec]) = "run-level-change"
            /\ pid(log[origin[k].rec]) = 259)
        => origin[k].cols.line = "(to lvl 3)"

(* C9 as amended: the level shown is the character whose code is pid % 256: *)
(* pid = 20019 (20019 % 256 = 51) reads "(to lvl 3)", while pid = 259       *)
(* (259 % 256 = 3) shows the control character of code 3, not the digit;    *)
(* the line is printed only when system is set.                             *)
C9_LevelIsCharOfLowByte ==
    \A k \in DOMAIN origin :
        LET r == log[origin[k].rec] IN
        Kind(r) = "run-level-change"
        => /\ system
           /\ origin[k].cols.user = "runlevel"
           /\ pid(r) = 20019 => origin[k].cols.line = "(to lvl 3)"
           /\ pid(r) = 259 => /\ origin[k].cols.line = "(to lvl \\x03)"
                              /\ origin[k].cols.line # "(to lvl 3)"

(* Both run-level records printed in one run *)
C9_Witness ==
    \E i, j \in DOMAIN origin :
        /\ pid(log[origin[i].rec]) = 20019
        /\ origin[i].cols.line = "(to lvl 3)"
        /\ pid(log[origin[j].rec]) = 259
        /\ Kind(log[origin[j].rec]) = "run-level-change"

-----------------------------------------------------------------------------
(* C10: a run whose record source could not be opened or read ends in an    *)
(* error and prints no line; a run that ends in success has read the        *)
(* source.                                                                  *)
C10_UnreadableSourceFails ==
    /\ (pc = "done" /\ ~readable) => (exit = "err" /\ out = <<>>)
    /\ (pc = "done" /\ exit = "ok") => readable


-----------------------------------------------------------------------------
(* The record on top of the stack is a user-session that the loop matches   *)
(* with a pending dead record                                               *)
MatchAtRecord ==
    /\ AtRecord
    /\ is_user_process(Top)
    /\ position(last_dead_ut, tty_device(Top)) # 0

MatchedDead == last_dead_ut[position(last_dead_ut, tty_device(Top))]

(* C11: a user-session record matched with a pending dead-process record    *)
(* ends at dead.login_time: the end marker is that clock time, never        *)
(* "down", "crash" or " - still logged in", and the duration is             *)
(* dead.login_time - r.login_time, whatever last_reboot and last_shutdown   *)
(* are.                                                                     *)
C11_DeadTakesPriority ==
    [][MatchAtRecord
       => /\ Printed
          /\ NewLine.rec = Top.pos
          /\ NewLine.dead = MatchedDead.pos
          /\ NewLine.cols.end_time = ClockString(login_time(MatchedDead))
          /\ NewLine.cols.end_time \notin {"down", "crash", " - still logged in"}
          /\ NewLine.cols.delta = DurationText(SecondsBetween(Top, MatchedDead))]_vars

(* A session closed by a dead record half a day later was just printed      *)
(* while a later reboot is known                                            *)
C11_Witness ==
    /\ pc = "loop" /\ origin # <<>>
    /\ origin[Len(origin)].rec = Len(ut_stack) + 1
    /\ Kind(log[Len(ut_stack) + 1]) = "user-session"
    /\ origin[Len(origin)].dead # 0
    /\ is_some(last_reboot_ut)
    /\ origin[Len(origin)].cols.end_time = "12:30"
    /\ origin[Len(origin)].cols.delta = "(12:30)"


-----------------------------------------------------------------------------
(* The duration column of s whole seconds of either sign: below zero the    *)
(* hours and the minutes carry the sign and no day is shown                 *)
DurationTextSigned(s) ==
    IF s >= 0 THEN DurationText(s)
    ELSE LET hours == ((-s) % 86400) \div 3600
             minutes == ((-s) % 3600) \div 60
         IN  "(" \o Pad2(-hours) \o ":" \o Pad2(-minutes) \o ")"

(* Second of an instant that may be unknown: the UNIX epoch when it is *)
SecondOrEpoch(o) == IF o = <<>> THEN 0 ELSE o[1].tv_sec

(* The end marker and the duration section 4.4 gives record r without a     *)
(* dead correlate, for the reboot rb and the shutdown sd known (or not)     *)
RuleEndState(r, rb, sd) ==
    LET reboot_time == SecondOrEpoch(rb)
        shutdown_time == SecondOrEpoch(sd)
        is_session == Kind(r) = "user-session"
    IN  IF rb = <<>> /\ sd = <<>>
        THEN <<IF is_session THEN " - still logged in" ELSE " - still running", "">>
        ELSE IF reboot_time >= shutdown_time
        THEN <<IF is_session THEN "down"
               ELSE ClockString([sec |-> shutdown_time, nsec |-> 0]),
               DurationTextSigned(shutdown_time - r.tv_sec)>>
        ELSE <<IF is_session THEN "crash"
               ELSE ClockString([sec |-> reboot_time, nsec |-> 0]),
               DurationTextSigned(reboot_time - r.tv_sec)>>

(* The record on top of the stack is resolved without a dead correlate *)
NoMatchAtRecord ==
    /\ AtRecord
    /\ is_user_process(Top) => position(last_dead_ut, tty_device(Top)) = 0

(* C12: a record without a dead correlate, resolved while last_reboot or    *)
(* last_shutdown is known (the unknown one counted as the UNIX epoch): if   *)
(* reboot_time >= shutdown_time the duration is shutdown_time -             *)
(* r.login_time and the marker "down" for a user-session, the shutdown      *)
(* clock time otherwise; else the duration is reboot_time - r.login_time    *)
(* and the marker "crash" for a user-session, the reboot clock time         *)
(* otherwise.                                                               *)
C12_ShutdownVersusReboot ==
    [][(/\ NoMatchAtRecord
        /\ is_some(last_reboot_ut) \/ is_some(last_shutdown_ut)
        /\ Printed)
       => /\ NewLine.rec = Top.pos
          /\ NewLine.cols.end_time
                 = RuleEndState(Top, last_reboot_ut, last_shutdown_ut)[1]
          /\ NewLine.cols.delta
                 = RuleEndState(Top, last_reboot_ut, last_shutdown_ut)[2]]_vars

(* A session was just printed as crashed half a day before a reboot that a  *)
(* shutdown follows                                                         *)
C12_Witness ==
    /\ pc = "loop" /\ origin # <<>>
    /\ origin[Len(origin)].rec = Len(ut_stack) + 1
    /\ Kind(log[Len(ut_stack) + 1]) = "user-session"
    /\ origin[Len(origin)].dead = 0
    /\ is_some(last_reboot_ut) /\ is_some(last_shutdown_ut)
    /\ unwrap(last_reboot_ut).tv_sec < unwrap(last_shutdown_ut).tv_sec
    /\ origin[Len(origin)].cols.end_time = "crash"
    /\ origin[Len(origin)].cols.delta = "(12:30)"


-----------------------------------------------------------------------------
(* The record of the given kind nearest after log position i, if there is   *)
(* one                                                                      *)
NearestFollowing(i, kind) ==
    LET later == {q \in (i + 1)..Len(log) : Kind(log[q]) = kind}
    IN  IF later = {} THEN <<>> ELSE <<log[SetMin(later)]>>

(* C13: when the record at log position i is resolved, last_reboot is the   *)
(* reboot record of the smallest log position above i and last_shutdown the *)
(* shutdown record of the smallest log position above i, each unknown when  *)
(* no such record follows, whatever show_system_events is.                  *)
C13_NearestFollowing ==
    AtRecord =>
        /\ last_reboot_ut = NearestFollowing(Top.pos, "reboot")
        /\ last_shutdown_ut = NearestFollowing(Top.pos, "shutdown")

(* System events are not shown; the oldest record is about to be resolved   *)
(* and two reboots follow it, or two shutdowns                              *)
C13_Witness ==
    /\ AtRecord /\ ~system
    /\ Len(log) = 3 /\ Top.pos = 1
    /\ Kind(log[2]) = Kind(log[3])
    /\ Kind(log[2]) \in {"reboot", "shutdown"}
    /\ last_reboot_ut \o last_shutdown_ut = <<log[2]>>


-----------------------------------------------------------------------------
SetMax(S) == CHOOSE x \in S : \A y \in S : x >= y

(* Log positions of the entries of last_dead_ut for device dev *)
PendingFor(dev) ==
    {last_dead_ut[i].pos : i \in {j \in DOMAIN last_dead_ut :
                                      tty_device(last_dead_ut[j]) = dev}}

(* C14: a user-session consumes, among the entries of pending_dead for its  *)
(* device, the one pushed earliest; the pass pushes in decreasing log       *)
(* position, so that is the entry of the largest log position.              *)
C14_FifoPerDevice ==
    [][MatchAtRecord
       => /\ Printed
          /\ NewLine.dead = SetMax(PendingFor(tty_device(Top)))]_vars


-----------------------------------------------------------------------------
(* The line of a reboot or of a shutdown is the one the state before the    *)
(* step gives, and the step stores the record                               *)
ResolvedBeforeStored ==
    (AtRecord /\ Kind(Top) \in {"reboot", "shutdown"})
    => /\ Kind(Top) = "reboot" => Printed /\ last_reboot_ut' = Some(Top)
       /\ Kind(Top) = "shutdown" => last_shutdown_ut' = Some(Top)
       /\ Printed =>
            /\ NewLine.rec = Top.pos
            /\ NewLine.cols.end_time
                   = RuleEndState(Top, last_reboot_ut, last_shutdown_ut)[1]
            /\ NewLine.cols.delta
                   = RuleEndState(Top, last_reboot_ut, last_shutdown_ut)[2]

(* The reboot that no reboot and no shutdown follows is still running *)
LatestRebootStillRunning ==
    (pc = "done" /\ exit = "ok" /\ readable) =>
        \A p \in DOMAIN log :
            (/\ Kind(log[p]) = "reboot"
             /\ NearestFollowing(p, "reboot") = <<>>
             /\ NearestFollowing(p, "shutdown") = <<>>)
            => /\ LinesOf(p) # {}
               /\ \A k \in LinesOf(p) :
                      /\ origin[k].cols.end_time = " - still running"
                      /\ origin[k].cols.delta = ""

(* C15: the line of a reboot (or shutdown) record is resolved against the   *)
(* state before the record is stored and the record becomes last_reboot     *)
(* (or last_shutdown) only afterwards, so no record resolves its own end    *)
(* state, and the latest reboot of a log with no later reboot or shutdown   *)
(* is reported as " - still running".                                       *)
C15_ResolveBeforeRecord ==
    [][ResolvedBeforeStored]_vars /\ []LatestRebootStillRunning

(* A shutdown, the newest record, was just printed as still running and     *)
(* is now last_shutdown                                                     *)
C15_Witness ==
    /\ pc = "loop" /\ origin # <<>> /\ system
    /\ Len(ut_stack) + 1 = Len(log)
    /\ Kind(log[Len(log)]) = "shutdown"
    /\ origin[Len(origin)].rec = Len(log)
    /\ origin[Len(origin)].cols.end_time = " - still running"
    /\ last_shutdown_ut = Some(log[Len(log)])


-----------------------------------------------------------------------------
(* The step emits no line *)
Silent == out' = out /\ origin' = origin

(* C16: a record classified other emits no line and leaves last_reboot,     *)
(* last_shutdown and pending_dead unchanged; a dead-process record emits no *)
(* line and only appends itself to pending_dead; a user-session or a        *)
(* run-level-change leaves last_reboot and last_shutdown unchanged; a       *)
(* reboot leaves last_shutdown and pending_dead unchanged; a shutdown       *)
(* leaves last_reboot and pending_dead unchanged.                           *)
C16_FrameConditions ==
    [][AtRecord =>
        /\ Kind(Top) = "other"
             => /\ Silent
                /\ UNCHANGED <<last_reboot_ut, last_shutdown_ut, last_dead_ut>>
        /\ Kind(Top) = "dead-process"
             => /\ Silent
                /\ last_dead_ut' = Append(last_dead_ut, Top)
                /\ UNCHANGED <<last_reboot_ut, last_shutdown_ut>>
        /\ Kind(Top) \in {"user-session", "run-level-change"}
             => UNCHANGED <<last_reboot_ut, last_shutdown_ut>>
        /\ Kind(Top) = "reboot"
             => UNCHANGED <<last_shutdown_ut, last_dead_ut>>
        /\ Kind(Top) = "shutdown"
             => UNCHANGED <<last_reboot_ut, last_dead_ut>>]_vars

(* Two dead records are pending, the second one pushed after a reboot was   *)
(* stored                                                                   *)
C16_Witness ==
    /\ pc = "loop" /\ ut_stack = <<>> /\ origin # <<>>
    /\ Len(last_dead_ut) = 2
    /\ last_dead_ut[2].pos = 1
    /\ is_some(last_reboot_ut)


-----------------------------------------------------------------------------
(* C17: whenever a line shows a duration, the end instant it runs to is the *)
(* login_time of a record after the record of the line in the log (the      *)
(* matched dead-process record, a reboot or a shutdown), never the UNIX     *)
(* epoch taken by default, so the duration is not negative, also when only  *)
(* one of last_reboot and last_shutdown is known.                           *)
C17_DurationToLaterRecord ==
    \A k \in DOMAIN origin :
        origin[k].cols.delta # ""
        => \E q \in (origin[k].rec + 1)..Len(log) :
               /\ \/ q = origin[k].dead
                  \/ origin[k].dead = 0 /\ Kind(log[q]) \in {"reboot", "shutdown"}
               /\ SecondsBetween(log[origin[k].rec], log[q]) >= 0
               /\ origin[k].cols.delta
                      = DurationText(SecondsBetween(log[origin[k].rec], log[q]))


-----------------------------------------------------------------------------
(* The lines of a report that are not those of a run-level change or of a   *)
(* shutdown: print_line pads the user column to eight characters            *)
SessionAndRebootLines(text) ==
    SelectSeq(text, LAMBDA l : SubSeq(l, 1, 8) \notin {"runlevel", "shutdown"})

(* C18: for one input, the lines of the user-session and of the reboot      *)
(* records, in content and in order, are the same with show_system_events   *)
(* false as with show_system_events true.                                   *)
C18_SystemFlagNonInterference ==
    \A i, j \in DOMAIN history :
        (/\ history[i].exit = "ok" /\ history[j].exit = "ok"
         /\ history[i].readable /\ history[j].readable
         /\ ~history[i].system /\ history[j].system)
        => SessionAndRebootLines(history[i].out)
               = SessionAndRebootLines(history[j].out)

(* The same log was reported without and with system events: a shutdown     *)
(* shown only by the second run ends a session that both runs report down   *)
C18_Witness ==
    /\ pc = "done" /\ Len(history) = 2
    /\ history[1].exit = "ok" /\ history[2].exit = "ok"
    /\ history[1].readable /\ history[2].readable
    /\ ~history[1].system /\ history[2].system
    /\ Len(history[1].out) < Len(history[2].out)
    /\ \E k \in DOMAIN origin :
           /\ Kind(log[origin[k].rec]) = "user-session"
           /\ origin[k].cols.end_time = "down"
           /\ NearestFollowing(origin[k].rec, "shutdown") # <<>>


-----------------------------------------------------------------------------
(* Log positions the pass has processed so far *)
Processed == (Len(ut_stack) + 1)..Len(log)

(* Lines of user-sessions that found a dead-process record *)
MatchedLines == {k \in DOMAIN origin : origin[k].dead # 0}

(* C19: after any prefix of the pass, pending_dead holds exactly the        *)
(* dead-process records processed so far that no user-session matched;      *)
(* each dead-process record is matched to at most one user-session, each    *)
(* user-session consumes at most one dead-process record, of its own        *)
(* tty_device, and |pending_dead| = dead-process records processed minus    *)
(* user-sessions that found a match.                                        *)
C19_PendingDeadConservation ==
    ((pc = "loop" \/ (pc = "done" /\ exit = "ok")) /\ readable) =>
        LET dead_seen == {q \in Processed : Kind(log[q]) = "dead-process"}
            taken == {origin[k].dead : k \in MatchedLines}
            pending == {last_dead_ut[i].pos : i \in DOMAIN last_dead_ut}
        IN  /\ pending = dead_seen \ taken
            /\ \A i \in DOMAIN last_dead_ut : last_dead_ut[i] = log[last_dead_ut[i].pos]
            /\ Cardinality(pending) = Len(last_dead_ut)
            /\ taken \subseteq dead_seen
            /\ Cardinality(taken) = Cardinality(MatchedLines)
            /\ \A k \in MatchedLines :
                   /\ Kind(log[origin[k].rec]) = "user-session"
                   /\ tty_device(log[origin[k].dead]) = tty_device(log[origin[k].rec])
                   /\ Cardinality(LinesOf(origin[k].rec)) = 1
            /\ Len(last_dead_ut) = Cardinality(dead_seen) - Cardinality(MatchedLines)

(* A session took the dead record pushed first and left behind the one of   *)
(* the other device, pushed after it                                        *)
C19_Witness ==
    /\ pc = "loop" /\ ut_stack = <<>>
    /\ Len(log) = 3
    /\ Cardinality(MatchedLines) = 1
    /\ \E k \in MatchedLines : origin[k].dead = 3
    /\ Len(last_dead_ut) = 1
    /\ last_dead_ut[1].pos = 2


-----------------------------------------------------------------------------
(* One step of the loop takes exactly the record of the highest log         *)
(* position left and prints at most one line, for that record               *)
OneRecordPerStep ==
    AtRecord =>
        /\ Top.pos = Len(ut_stack)
        /\ Len(ut_stack') = Len(ut_stack) - 1
        /\ ut_stack' = SubSeq(ut_stack, 1, Len(ut_stack) - 1)
        /\ Len(origin') <= Len(origin) + 1
        /\ Printed => NewLine.rec = Top.pos
        /\ pc' = "loop"

(* The stack is the part of the log the pass has not taken yet, and no      *)
(* record has more than one line                                            *)
StackIsLogPrefix ==
    (pc = "loop" /\ readable) =>
        /\ ut_stack = SubSeq(log, 1, Len(ut_stack))
        /\ \A p \in DOMAIN log : Cardinality(LinesOf(p)) <= 1
        /\ \A k \in DOMAIN origin : origin[k].rec > Len(ut_stack)
        /\ \A k, m \in DOMAIN origin : k < m => origin[k].rec > origin[m].rec

(* C20: for a log of n records the pass terminates with the stack empty;    *)
(* each of its steps before the return takes one record, the n records go   *)
(* in strictly decreasing log position, each once, which makes n steps, and *)
(* no record gets more than one line.                                       *)
C20_Terminates ==
    /\ (pc = "loop") ~> (pc = "done" /\ exit = "ok" /\ ut_stack = <<>>)
    /\ [][OneRecordPerStep]_vars
    /\ []StackIsLogPrefix

(* The pass over three records is over: two of them have a line *)
C20_Witness ==
    /\ pc = "done" /\ exit = "ok" /\ readable
    /\ Len(log) = 3 /\ ut_stack = <<>>
    /\ Len(origin) = 2
    /\ origin[1].rec > origin[2].rec

====
